---- MODULE Spec2Model ----
(***************************************************************************)
(* A model of solbot.py: the Telegram signal handler (handle_message), the *)
(* per-position monitor coroutine (monitor_trade), the trade-execution     *)
(* gateway (jupiter_swap) and the shared daily statistics.                 *)
(*                                                                         *)
(* Prices are integers (hundredths of the quote unit); the percentage      *)
(* arithmetic of the source is exact for the prices used here, so float    *)
(* rounding plays no part.  SOL amounts are in lamports.  Time is the      *)
(* number of seconds since a monitor's start_time.                         *)
(*                                                                         *)
(* All coroutines run on one asyncio event loop: a step of the model is    *)
(* the code between two awaits.  requests.get and jupiter_swap are         *)
(* blocking calls, so nothing interleaves with them.  The Application is   *)
(* built without concurrent_updates, so updates are handled one at a time. *)
(***************************************************************************)
EXTENDS Integers, Sequences, FiniteSets, TLC

\* ------------------------------------------------------------------ bounds
MaxSignals == 2      \* messages handled by the bot
MaxCloses == 2       \* closing blocks run by all monitors together
MaxPolls == 3        \* sleeps of a monitor that fit into TRADE_TIMEOUT
MaxReports == 2      \* runs of send_daily_summary
MaxCalls == 2        \* calls of jupiter_swap on their own
MaxLag == 29         \* seconds by which a pass of schedule_daily runs late
MaxLead == 90        \* seconds before WAT midnight at which the thread starts
Horizon == 240       \* seconds after WAT midnight up to which it is followed
MaxCallers == 3      \* threads that call start_telegram_bot

\* ------------------------------------------------- configuration (defaults)
TP_PCT == 50
SL_PCT == 5
TRAILING_SL_PCT == 10
TRADE_TIMEOUT == 300
CHECK_INTERVAL == 30
TRADE_LAMPORTS == 10000000
MIDNIGHT_WINDOW == 60   \* now.hour == 0 and now.minute == 0, in seconds
FIRED_SLEEP == 60       \* time.sleep(60) after a scheduling attempt
POLL_SLEEP == 30        \* time.sleep(30) at the end of every pass

None == "None"

\* The percentages as read from the environment: the defaults, and a setting
\* in which take-profit and stop-loss are both reached at the entry price.
DefaultConfig == [tp |-> TP_PCT, sl |-> SL_PCT, trail |-> TRAILING_SL_PCT]
Configs == {DefaultConfig, [tp |-> 0, sl |-> 0, trail |-> TRAILING_SL_PCT]}

\* ------------------------------------------------------------------ inputs
Tokens == {"caA", "caB"}
Symbol(ca) == IF ca = "caA" THEN "AAA" ELSE "BBB"

Prices == {94, 100, 105, 120, 150}

\* What a GET on DEXSCREENER_TOKEN + ca can give back.
\*   error     the request, .json() or float() raises
\*   nopairs   a JSON object without the key "pairs" (or with "pairs": null
\*             in monitor_trade)
\*   empty     "pairs": []
\*   nokey     a first pair without the key "priceUsd"
\*   price     a first pair with "priceUsd": p
FeedResponses ==
    { [kind |-> k, price |-> 0] : k \in {"error", "nopairs", "empty", "nokey"} }
    \cup { [kind |-> "price", price |-> p] : p \in Prices }

\* Responses in which the feed gave no price.
NoUsablePrice == { r \in FeedResponses : r.kind # "price" }

\* Where a call of jupiter_swap can end.
SwapOutcomes ==
    {"quote_error", "no_route", "swap_error", "no_swap_tx", "send_error",
     "no_result", "ok"}

\* How long asyncio.sleep(CHECK_INTERVAL) lasts: CHECK_INTERVAL or longer (the
\* blocking calls of the other coroutines hold the event loop).  The model
\* takes a sleep of which MaxPolls fit into TRADE_TIMEOUT, and one that lasts
\* TRADE_TIMEOUT.
SlowSleep ==
    IF TRADE_TIMEOUT \div MaxPolls > CHECK_INTERVAL
    THEN TRADE_TIMEOUT \div MaxPolls ELSE CHECK_INTERVAL
SleepTimes == {SlowSleep, TRADE_TIMEOUT}

VARIABLES
    cfg,            \* TP_PCT, SL_PCT, TRAILING_SL_PCT as read from the env
    trade_logs,     \* global trade_logs
    total_pnl_sol,  \* global total_pnl_sol (lamports)
    win_count,      \* global win_count
    loss_count,     \* global loss_count
    mon,            \* the monitor_trade tasks, in creation order
    handler,        \* the handle_message coroutine in progress
    signals,        \* messages handled so far
    bought,         \* per token: BUY calls that returned a transaction id
    summary,        \* the send_daily_summary coroutine and what it reported
    calls,          \* calls of jupiter_swap: what the services did, the result
    process,        \* "up", or "down" once the interpreter has exited
    sched,          \* the schedule_daily thread around one WAT midnight
    view,           \* the last response of /stats
    boot            \* start_telegram_bot: tg_app, its callers, what they made

\* The state outside handle_message and monitor_trade.
aux == <<summary, calls, process, sched, view, boot>>

vars == <<cfg, trade_logs, total_pnl_sol, win_count, loss_count, mon, handler,
          signals, bought, aux>>

Max(S) == CHOOSE x \in S : \A y \in S : y <= x
Min2(a, b) == IF a < b THEN a ELSE b

\* ------------------------------------------------------------ jupiter_swap
\* The transaction id jupiter_swap returns (first element of its result).
jupiter_swap(outcome) == IF outcome = "ok" THEN "txid" ELSE None

\* What the three services do in one call.  The quote request raises (the
\* request, .json(), or a body that is not a dict), answers without "data",
\* with an empty "data", or with a route.  The swap request raises, answers
\* without "swapTransaction", or with one.  The submission: decoding the
\* transaction raises, send_transaction raises before or after the
\* transaction went out, answers without "result", or with a transaction id.
QuoteReplies == {"raise", "no_data", "empty_data", "route"}
SwapReplies == {"raise", "no_tx", "tx"}
SendReplies ==
    {"decode_raise", "raise_unsent", "raise_sent", "no_result", "txid"}
SwapActions == {"BUY", "SELL"}

\* The body of the try block: exc is whether it left by an exception, sent
\* whether send_transaction put the transaction on the network.
SwapBody(quote, swap, send, action) ==
    LET end(exc, txid, msg, sent) ==
            [exc |-> exc, txid |-> txid, msg |-> msg, sent |-> sent]
    IN  IF quote = "raise" THEN end(TRUE, None, None, FALSE)
        ELSE IF quote \in {"no_data", "empty_data"}
             THEN end(FALSE, None, <<"No route for", action>>, FALSE)
        ELSE IF swap = "raise" THEN end(TRUE, None, None, FALSE)
        ELSE IF swap = "no_tx"
             THEN end(FALSE, None, <<"Swap tx error", action>>, FALSE)
        ELSE IF send \in {"decode_raise", "raise_unsent"}
             THEN end(TRUE, None, None, FALSE)
        ELSE IF send = "raise_sent" THEN end(TRUE, None, None, TRUE)
        ELSE IF send = "no_result"
             THEN end(FALSE, None, <<action, "Tx:", None>>, TRUE)
        ELSE end(FALSE, "txid", <<action, "Tx:", "txid">>, TRUE)

\* The function without its except clause.
SwapCallNoExcept(quote, swap, send, action) ==
    LET b == SwapBody(quote, swap, send, action)
    IN  [raised |-> b.exc, txid |-> b.txid, msg |-> b.msg, sent |-> b.sent]

\* jupiter_swap(input_mint, output_mint, amount, symbol, action): the try
\* block, and except Exception returning (None, "<action> failed ...").
SwapCall(quote, swap, send, action) ==
    LET b == SwapBody(quote, swap, send, action)
    IN  IF b.exc
        THEN [raised |-> FALSE, txid |-> None, msg |-> <<action, "failed">>,
              sent |-> b.sent]
        ELSE [raised |-> FALSE, txid |-> b.txid, msg |-> b.msg,
              sent |-> b.sent]

\* Where the call ends, as an element of SwapOutcomes.
OutcomeOf(quote, swap, send) ==
    IF quote = "raise" THEN "quote_error"
    ELSE IF quote \in {"no_data", "empty_data"} THEN "no_route"
    ELSE IF swap = "raise" THEN "swap_error"
    ELSE IF swap = "no_tx" THEN "no_swap_tx"
    ELSE IF send \in {"decode_raise", "raise_unsent", "raise_sent"}
         THEN "send_error"
    ELSE IF send = "no_result" THEN "no_result"
    ELSE "ok"

\* ----------------------------------------------------------- monitor_trade
\* change = (price - entry_price) / entry_price * 100 if entry_price else 0
Change(price, entry_price) ==
    IF entry_price # 0 THEN ((price - entry_price) * 100) \div entry_price ELSE 0

TakeProfitHit(price, entry_price) == Change(price, entry_price) >= cfg.tp
StopLossHit(price, entry_price) == Change(price, entry_price) <= 0 - cfg.sl
TrailingHit(price, peak_price) == price * 100 <= peak_price * (100 - cfg.trail)
TimeoutHit(elapsed) == elapsed >= TRADE_TIMEOUT

\* The peak overwritten by every price read.
NewPeakOverwrite(peak_price, price) == price

\* if price > peak_price: peak_price = price
NewPeak(peak_price, price) == IF price > peak_price THEN price ELSE peak_price

\* The chain with the stop-loss test ahead of the take-profit test.
ExitReasonStopLossFirst(price, entry_price, peak_price, elapsed) ==
    IF StopLossHit(price, entry_price) THEN "SL"
    ELSE IF TakeProfitHit(price, entry_price) THEN "TP"
    ELSE IF TrailingHit(price, peak_price) THEN "TRAIL"
    ELSE IF TimeoutHit(elapsed) THEN "TIMEOUT"
    ELSE None

\* The chain with the trailing stop measured from the entry price.
ExitReasonTrailFromEntry(price, entry_price, peak_price, elapsed) ==
    IF TakeProfitHit(price, entry_price) THEN "TP"
    ELSE IF StopLossHit(price, entry_price) THEN "SL"
    ELSE IF TrailingHit(price, entry_price) THEN "TRAIL"
    ELSE IF TimeoutHit(elapsed) THEN "TIMEOUT"
    ELSE None

\* The if/elif chain that sets reason.
ExitReason(price, entry_price, peak_price, elapsed) ==
    IF TakeProfitHit(price, entry_price) THEN "TP"
    ELSE IF StopLossHit(price, entry_price) THEN "SL"
    ELSE IF TrailingHit(price, peak_price) THEN "TRAIL"
    ELSE IF TimeoutHit(elapsed) THEN "TIMEOUT"
    ELSE None

\* The proceeds of the position in place of its profit.
ProfitAsProceeds(pnl_pct) == (TRADE_LAMPORTS * (100 + pnl_pct)) \div 100

\* profit_in_sol = TRADE_SOL_AMOUNT * pnl_pct / 100
Profit(pnl_pct) == (TRADE_LAMPORTS * pnl_pct) \div 100

TradeRecord(m, exit_price, reason) ==
    [ symbol |-> m.symbol,
      entry_price |-> m.entry_price,
      exit_price |-> exit_price,
      pnl_pct |-> Change(exit_price, m.entry_price),
      profit_in_sol |-> Profit(Change(exit_price, m.entry_price)),
      reason |-> reason ]

\* A new coroutine monitor_trade(app, ca, symbol, entry_price, lamports):
\* peak_price = entry_price, start_time = now.  reason and exit_price are the
\* coroutine's locals (exit_price is unbound until the first closing block).
\* seen, sells, sold, resold and records are history: the prices read so far,
\* the SELL calls made, whether one returned a transaction id, whether a SELL
\* was made after one had succeeded, and the trade records appended.
NewMonitor(ca, entry_price) ==
    [ ca |-> ca, symbol |-> Symbol(ca), entry_price |-> entry_price,
      peak_price |-> entry_price, elapsed |-> 0, pc |-> "check",
      reason |-> None, exit_price |-> 0,
      seen |-> {}, sells |-> 0, sold |-> FALSE, resold |-> FALSE,
      records |-> 0 ]

Start ==
    /\ trade_logs = <<>>
    /\ total_pnl_sol = 0
    /\ win_count = 0
    /\ loss_count = 0
    /\ mon = <<>>
    /\ handler = [pc |-> "idle", ca |-> None, txid |-> None]
    /\ signals = 0
    /\ bought = [c \in Tokens |-> 0]
    /\ summary = [pc |-> "idle", trades |-> 0, wins |-> 0, losses |-> 0,
                  pnl |-> 0, reports |-> 0, reported |-> 0, cleared |-> 0]
    /\ calls = <<>>
    /\ process = "up"
    /\ sched = [started |-> FALSE, clock |-> 0, attempts |-> 0,
                scheduled |-> 0]
    /\ view = [served |-> FALSE, trades_count |-> 0, wins |-> 0, losses |-> 0,
               total_pnl_sol |-> 0, logged_pnl |-> 0]
    /\ boot = [env |-> "unread", tg_app |-> 0, apps |-> 0,
               schedule_threads |-> 0, polling_threads |-> 0,
               pc |-> [c \in 1..MaxCallers |-> "idle"]]

Init == cfg = DefaultConfig /\ Start

\* ---------------------------------------------------------- handle_message
\* A message without a contract address: reply and return.
HandleNoAddress ==
    /\ handler.pc = "idle"
    /\ signals < MaxSignals
    /\ signals' = signals + 1
    /\ UNCHANGED <<aux, cfg, trade_logs, total_pnl_sol, win_count, loss_count, mon,
                   handler, bought>>

\* A message with a contract address: the BUY, up to the await of
\* reply_text(msg).
HandleSignal(ca, outcome) ==
    /\ handler.pc = "idle"
    /\ signals < MaxSignals
    /\ signals' = signals + 1
    /\ handler' = [pc |-> "reply", ca |-> ca, txid |-> jupiter_swap(outcome)]
    /\ bought' = IF jupiter_swap(outcome) # None
                 THEN [bought EXCEPT ![ca] = @ + 1] ELSE bought
    /\ UNCHANGED <<aux, cfg, trade_logs, total_pnl_sol, win_count, loss_count, mon>>

\* r.get("pairs", [{}])[0] or float() raises: "pairs" is an empty list, or the
\* request or .json() failed.
EntryRaises(resp) == resp.kind \in {"error", "empty"}

\* float(r.get("pairs", [{}])[0].get("priceUsd", 0) or 0)
EntryPrice(resp) == IF resp.kind = "price" THEN resp.price ELSE 0

\* The monitor created whether or not the BUY returned a transaction id.
AfterReplyNoTxidTest(resp) ==
    IF ~EntryRaises(resp)
    THEN mon' = Append(mon, NewMonitor(handler.ca, EntryPrice(resp)))
    ELSE mon' = mon

\* if txid: fetch the entry price and create the monitor task; an exception
\* ends in reply_text("Could not fetch entry price ...").
AfterReply(resp) ==
    IF handler.txid # None /\ ~EntryRaises(resp)
    THEN mon' = Append(mon, NewMonitor(handler.ca, EntryPrice(resp)))
    ELSE mon' = mon

\* reply_text(msg) returns or raises; when it raises the handler ends there.
ReplyDone(ok, resp) ==
    /\ handler.pc = "reply"
    /\ handler' = [pc |-> "idle", ca |-> None, txid |-> None]
    /\ IF ok THEN AfterReply(resp) ELSE mon' = mon
    /\ UNCHANGED <<aux, cfg, trade_logs, total_pnl_sol, win_count, loss_count,
                   signals, bought>>

\* ----------------------------------------------------------- monitor_trade
\* The closing block (if reason:), up to the await of send_message.
CloseBlock(i, price, peak, reason, outcome) ==
    LET m == mon[i]
        rec == TradeRecord(m, price, reason)
    IN  /\ total_pnl_sol' = total_pnl_sol + rec.profit_in_sol
        /\ IF rec.pnl_pct > 0
           THEN win_count' = win_count + 1 /\ loss_count' = loss_count
           ELSE loss_count' = loss_count + 1 /\ win_count' = win_count
        /\ trade_logs' = Append(trade_logs, rec)
        /\ mon' = [mon EXCEPT ![i] =
                    [m EXCEPT !.pc = "notify", !.peak_price = peak,
                              !.reason = reason, !.exit_price = price,
                              !.seen = @ \cup {price},
                              !.sells = @ + 1,
                              !.sold = @ \/ jupiter_swap(outcome) # None,
                              !.resold = @ \/ m.sold,
                              !.records = @ + 1]]

\* One pass of the loop with a price: lines 120-134, then either the closing
\* block or the sleep at the end of the loop.
PriceCheck(i, price, outcome) ==
    LET m == mon[i]
        peak == NewPeak(m.peak_price, price)
        reason == ExitReason(price, m.entry_price, peak, m.elapsed)
    IN  IF reason # None
        THEN CloseBlock(i, price, peak, reason, outcome)
        ELSE /\ mon' = [mon EXCEPT ![i] =
                         [m EXCEPT !.pc = "sleep", !.peak_price = peak,
                                   !.reason = None, !.seen = @ \cup {price}]]
             /\ UNCHANGED <<trade_logs, total_pnl_sol, win_count, loss_count>>

\* price = float(pairs[0].get("priceUsd", 0))
CheckedPrice(resp) == IF resp.kind = "price" THEN resp.price ELSE 0

RECURSIVE SumRecords(_)
SumRecords(ms) ==
    IF ms = <<>> THEN 0 ELSE Head(ms).records + SumRecords(Tail(ms))

\* One pass of the while loop from the GET to the next await.
Check(i, resp, outcome) ==
    /\ i \in DOMAIN mon
    /\ mon[i].pc = "check"
    /\ SumRecords(mon) < MaxCloses
    /\ IF resp.kind \in {"error", "nopairs", "empty"}
       THEN /\ mon' = [mon EXCEPT ![i].pc = "sleep"]
            /\ UNCHANGED <<trade_logs, total_pnl_sol, win_count, loss_count>>
       ELSE PriceCheck(i, CheckedPrice(resp), outcome)
    /\ UNCHANGED <<aux, cfg, handler, signals, bought>>

\* await asyncio.sleep(CHECK_INTERVAL) returns after d seconds.  elapsed is
\* time.time() - start_time, kept up to TRADE_TIMEOUT (line 132 compares it
\* with nothing else).
Sleep(i, d) ==
    /\ i \in DOMAIN mon
    /\ mon[i].pc = "sleep"
    /\ mon' = [mon EXCEPT ![i].pc = "check",
                          ![i].elapsed = Min2(@ + d, TRADE_TIMEOUT)]
    /\ UNCHANGED <<aux, cfg, trade_logs, total_pnl_sol, win_count, loss_count,
                   handler, signals, bought>>

\* await send_message("Trade closed ...") returns (break) or raises (the
\* except clause, then the sleep at the end of the loop).
NotifyClosed(i, ok) ==
    /\ i \in DOMAIN mon
    /\ mon[i].pc = "notify"
    /\ mon' = [mon EXCEPT ![i].pc = IF ok THEN "done" ELSE "sleep"]
    /\ UNCHANGED <<aux, cfg, trade_logs, total_pnl_sol, win_count, loss_count,
                   handler, signals, bought>>

\* ------------------------------------------------------ send_daily_summary
\* Lines 204-211: the message is composed from the four globals, up to the
\* await of send_message.  trades, wins, losses and pnl are the figures in
\* the message.
SummaryStart ==
    /\ summary.pc = "idle"
    /\ summary.reports < MaxReports
    /\ summary' = [summary EXCEPT !.pc = "send",
                                  !.trades = Len(trade_logs),
                                  !.wins = win_count,
                                  !.losses = loss_count,
                                  !.pnl = total_pnl_sol]
    /\ UNCHANGED <<cfg, trade_logs, total_pnl_sol, win_count, loss_count, mon,
                   handler, signals, bought, calls, process, sched,
                   view, boot>>

\* send_message returns or raises (the except clause prints); then line 217
\* resets the four globals.  reported and cleared are history: the trades
\* the messages have counted and the trade records the resets have dropped.
SummaryDone ==
    /\ summary.pc = "send"
    /\ trade_logs' = <<>>
    /\ total_pnl_sol' = 0
    /\ win_count' = 0
    /\ loss_count' = 0
    /\ summary' = [pc |-> "idle", trades |-> 0, wins |-> 0, losses |-> 0,
                   pnl |-> 0, reports |-> summary.reports + 1,
                   reported |-> summary.reported + summary.trades,
                   cleared |-> summary.cleared + Len(trade_logs)]
    /\ UNCHANGED <<cfg, mon, handler, signals, bought, calls, process, sched,
                   view, boot>>

\* ------------------------------------------------- jupiter_swap on its own
\* One call of jupiter_swap, recorded with what the services did.
GatewayCall(quote, swap, send, action) ==
    /\ Len(calls) < MaxCalls
    /\ calls' = Append(calls, [quote |-> quote, swap |-> swap, send |-> send,
                               action |-> action,
                               result |-> SwapCall(quote, swap, send, action)])
    /\ UNCHANGED <<cfg, trade_logs, total_pnl_sol, win_count, loss_count, mon,
                   handler, signals, bought, summary, process, sched,
                   view, boot>>

\* ------------------------------------------------------------ process exit
\* The interpreter exits (a signal, or the main thread returning).  The
\* polling thread, whose event loop runs the monitors, and the scheduler
\* thread are daemon threads: they stop where they are.  No handler of the
\* exit is registered and nothing is written anywhere.
Shutdown ==
    /\ process = "up"
    /\ process' = "down"
    /\ UNCHANGED <<cfg, trade_logs, total_pnl_sol, win_count, loss_count, mon,
                   handler, signals, bought, summary, calls, sched,
                   view, boot>>

\* ----------------------------------------------------------- schedule_daily
\* The clock is WAT time in seconds from the midnight that is followed.
\* now.hour == 0 and now.minute == 0
AtMidnight(clock) == 0 <= clock /\ clock < MIDNIGHT_WINDOW

\* The sleeps of one pass: 60 s more after a pass that tried to schedule.
SleepOfPass(fired) == IF fired THEN FIRED_SLEEP + POLL_SLEEP ELSE POLL_SLEEP

\* The thread is started (line 249) t seconds from midnight.
SchedStart(t) ==
    /\ ~sched.started
    /\ sched' = [sched EXCEPT !.started = TRUE, !.clock = t]
    /\ UNCHANGED <<cfg, trade_logs, total_pnl_sol, win_count, loss_count, mon,
                   handler, signals, bought, summary, calls, process,
                   view, boot>>

\* One pass of the while loop.  At midnight app.create_task is called: it
\* returns (ok) or raises, and the except clause prints.  attempts counts the
\* calls, scheduled the calls that returned.  lag is the time the pass takes
\* beyond its sleeps.
SchedPass(ok, lag) ==
    /\ sched.started
    /\ sched.clock < Horizon
    /\ LET fired == AtMidnight(sched.clock)
       IN  sched' = [sched EXCEPT
                       !.clock = @ + SleepOfPass(fired) + lag,
                       !.attempts = IF fired THEN @ + 1 ELSE @,
                       !.scheduled = IF fired /\ ok THEN @ + 1 ELSE @]
    /\ UNCHANGED <<cfg, trade_logs, total_pnl_sol, win_count, loss_count, mon,
                   handler, signals, bought, summary, calls, process,
                   view, boot>>

\* ------------------------------------------------- /stats, a Flask thread
\* The closing block as another thread sees it.  Lines 135-144: the SELL and
\* the update of total_pnl_sol and win_count or loss_count; the record is
\* not yet appended.
CloseStats(i, price, peak, reason, outcome) ==
    LET m == mon[i]
        rec == TradeRecord(m, price, reason)
    IN  /\ total_pnl_sol' = total_pnl_sol + rec.profit_in_sol
        /\ IF rec.pnl_pct > 0
           THEN win_count' = win_count + 1 /\ loss_count' = loss_count
           ELSE loss_count' = loss_count + 1 /\ win_count' = win_count
        /\ trade_logs' = trade_logs
        /\ mon' = [mon EXCEPT ![i] =
                    [m EXCEPT !.pc = "append", !.peak_price = peak,
                              !.reason = reason, !.exit_price = price,
                              !.seen = @ \cup {price},
                              !.sells = @ + 1,
                              !.sold = @ \/ jupiter_swap(outcome) # None,
                              !.resold = @ \/ m.sold]]

\* Whether a pass of the loop with this response runs the closing block.
Closes(i, resp) ==
    /\ resp.kind \notin {"error", "nopairs", "empty"}
    /\ ExitReason(CheckedPrice(resp), mon[i].entry_price,
                  NewPeak(mon[i].peak_price, CheckedPrice(resp)),
                  mon[i].elapsed) # None

\* One pass of the loop, stopping before line 146 when it closes.
ThreadCheck(i, resp, outcome) ==
    IF i \in DOMAIN mon /\ Closes(i, resp)
    THEN /\ mon[i].pc = "check"
         /\ SumRecords(mon) < MaxCloses
         /\ LET price == CheckedPrice(resp)
                peak == NewPeak(mon[i].peak_price, price)
            IN  CloseStats(i, price, peak,
                           ExitReason(price, mon[i].entry_price, peak,
                                      mon[i].elapsed), outcome)
         /\ UNCHANGED <<aux, cfg, handler, signals, bought>>
    ELSE Check(i, resp, outcome)

\* Lines 146-154: trade_logs.append, up to the await of send_message.
AppendRecord(i) ==
    /\ i \in DOMAIN mon
    /\ mon[i].pc = "append"
    /\ trade_logs' =
          Append(trade_logs, TradeRecord(mon[i], mon[i].exit_price,
                                         mon[i].reason))
    /\ mon' = [mon EXCEPT ![i].pc = "notify", ![i].records = @ + 1]
    /\ UNCHANGED <<aux, cfg, total_pnl_sol, win_count, loss_count, handler,
                   signals, bought>>

RECURSIVE SumProfit(_)
SumProfit(logs) ==
    IF logs = <<>> THEN 0
    ELSE Head(logs).profit_in_sol + SumProfit(Tail(logs))

\* GET /stats: the response built from the globals.  logged_pnl is history:
\* the sum of profit_in_sol over trade_logs as the handler found it.
StatsRead ==
    /\ view' = [served |-> TRUE, trades_count |-> Len(trade_logs),
                wins |-> win_count, losses |-> loss_count,
                total_pnl_sol |-> total_pnl_sol,
                logged_pnl |-> SumProfit(trade_logs)]
    /\ UNCHANGED <<cfg, trade_logs, total_pnl_sol, win_count, loss_count, mon,
                   handler, signals, bought, summary, calls, process, sched,
                   boot>>

\* ------------------------------------------------------ start_telegram_bot
\* TELEGRAM_TOKEN = os.getenv("TELEGRAM_BOT_TOKEN"): set or not.
LoadEnv(token) ==
    /\ boot.env = "unread"
    /\ boot' = [boot EXCEPT !.env = IF token THEN "token" ELSE "no_token"]
    /\ UNCHANGED <<cfg, trade_logs, total_pnl_sol, win_count, loss_count, mon,
                   handler, signals, bought, summary, calls, process, sched,
                   view>>

\* A caller (the first-request hook, the /start-bot route, __main__) enters:
\* lines 237-242.  tg_app is 0 for None, else the number of the Application.
BotEnter(c) ==
    /\ boot.env # "unread"
    /\ boot.pc[c] = "idle"
    /\ boot' = [boot EXCEPT !.pc[c] =
                  IF boot.tg_app # 0 \/ boot.env = "no_token"
                  THEN "returned" ELSE "build"]
    /\ UNCHANGED <<cfg, trade_logs, total_pnl_sol, win_count, loss_count, mon,
                   handler, signals, bought, summary, calls, process, sched,
                   view>>

\* Lines 244-245: the Application is built and stored in tg_app, or the
\* builder raises and the call ends.
BotBuild(c, ok) ==
    /\ boot.pc[c] = "build"
    /\ boot' = IF ok
               THEN [boot EXCEPT !.apps = @ + 1, !.tg_app = boot.apps + 1,
                                 !.pc[c] = "schedule"]
               ELSE [boot EXCEPT !.pc[c] = "returned"]
    /\ UNCHANGED <<cfg, trade_logs, total_pnl_sol, win_count, loss_count, mon,
                   handler, signals, bought, summary, calls, process, sched,
                   view>>

\* Lines 248-249: the daily-scheduler thread is started.
BotSchedule(c) ==
    /\ boot.pc[c] = "schedule"
    /\ boot' = [boot EXCEPT !.schedule_threads = @ + 1, !.pc[c] = "polling"]
    /\ UNCHANGED <<cfg, trade_logs, total_pnl_sol, win_count, loss_count, mon,
                   handler, signals, bought, summary, calls, process, sched,
                   view>>

\* Lines 251-257: the polling thread is started and the call returns.
BotPolling(c) ==
    /\ boot.pc[c] = "polling"
    /\ boot' = [boot EXCEPT !.polling_threads = @ + 1, !.pc[c] = "returned"]
    /\ UNCHANGED <<cfg, trade_logs, total_pnl_sol, win_count, loss_count, mon,
                   handler, signals, bought, summary, calls, process, sched,
                   view>>

\* The entry prices the feed gives in the model: a price of 100 makes every
\* later price its own percentage of the entry price.
EntryPrices == {0, 100}
EntryResponses ==
    { r \in FeedResponses : r.kind = "price" => r.price \in EntryPrices }

\* The whole bot, with a feed that quotes two prices (a loss and a gain) and
\* sleeps that last TRADE_TIMEOUT.
CoarsePrices == {94, 150}
CoarseResponses ==
    { r \in FeedResponses : r.kind = "price" => r.price \in CoarsePrices }

Next ==
    \/ HandleNoAddress
    \/ \E ca \in Tokens, o \in SwapOutcomes : HandleSignal(ca, o)
    \/ \E ok \in BOOLEAN, r \in EntryResponses : ReplyDone(ok, r)
    \/ \E i \in 1..MaxSignals, r \in CoarseResponses, o \in SwapOutcomes :
          Check(i, r, o)
    \/ \E i \in 1..MaxSignals : Sleep(i, TRADE_TIMEOUT)
    \/ \E i \in 1..MaxSignals, ok \in BOOLEAN : NotifyClosed(i, ok)

Spec == Init /\ [][Next]_vars

\* One position in detail: the bot handles a single message, under either
\* setting of Configs, and the monitor it starts reads every price of Prices
\* at every pace of SleepTimes.
MonitorNext ==
    \/ signals = 0 /\ HandleNoAddress
    \/ signals = 0 /\ \E ca \in Tokens, o \in SwapOutcomes : HandleSignal(ca, o)
    \/ \E ok \in BOOLEAN, r \in EntryResponses : ReplyDone(ok, r)
    \/ \E r \in FeedResponses, o \in SwapOutcomes : Check(1, r, o)
    \/ \E d \in SleepTimes : Sleep(1, d)
    \/ \E ok \in BOOLEAN : NotifyClosed(1, ok)

MonitorInit == cfg \in Configs /\ Start

MonitorSpec == MonitorInit /\ [][MonitorNext]_vars

\* One position and the daily summary: the tasks of one event loop, with the
\* feed and the sleeps of Spec.
ReportNext ==
    \/ signals = 0 /\ \E ca \in Tokens, o \in SwapOutcomes : HandleSignal(ca, o)
    \/ \E ok \in BOOLEAN, r \in EntryResponses : ReplyDone(ok, r)
    \/ \E r \in CoarseResponses, o \in SwapOutcomes : Check(1, r, o)
    \/ Sleep(1, TRADE_TIMEOUT)
    \/ \E ok \in BOOLEAN : NotifyClosed(1, ok)
    \/ SummaryStart
    \/ SummaryDone

ReportSpec == Init /\ [][ReportNext]_vars

\* Calls of jupiter_swap for every behaviour of the three services.
GatewayNext ==
    \E q \in QuoteReplies, s \in SwapReplies, t \in SendReplies,
       a \in SwapActions : GatewayCall(q, s, t, a)

GatewaySpec == Init /\ [][GatewayNext]_vars

\* One position, and the process exiting at any moment.
ShutdownNext ==
    \/ process = "up" /\ MonitorNext
    \/ Shutdown

ShutdownSpec == Init /\ [][ShutdownNext]_vars

\* The scheduler thread, started at any second of the MaxLead seconds
\* before midnight or of the minute after it.
ScheduleNext ==
    \/ \E t \in (0 - MaxLead)..(MIDNIGHT_WINDOW - 1) : SchedStart(t)
    \/ \E ok \in BOOLEAN, lag \in 0..MaxLag : SchedPass(ok, lag)

ScheduleSpec == Init /\ [][ScheduleNext]_vars

\* One position, the daily summary, and /stats served by a thread of its
\* own: the closing block is taken in two steps.
ThreadNext ==
    \/ signals = 0 /\ \E ca \in Tokens, o \in SwapOutcomes : HandleSignal(ca, o)
    \/ \E ok \in BOOLEAN, r \in EntryResponses : ReplyDone(ok, r)
    \/ \E r \in CoarseResponses, o \in SwapOutcomes : ThreadCheck(1, r, o)
    \/ AppendRecord(1)
    \/ Sleep(1, TRADE_TIMEOUT)
    \/ \E ok \in BOOLEAN : NotifyClosed(1, ok)
    \/ SummaryStart
    \/ SummaryDone
    \/ StatsRead

ThreadSpec == Init /\ [][ThreadNext]_vars

\* Calls of start_telegram_bot from MaxCallers threads of the server.
BootNext ==
    \/ \E token \in BOOLEAN : LoadEnv(token)
    \/ \E c \in 1..MaxCallers : BotEnter(c)
    \/ \E c \in 1..MaxCallers, ok \in BOOLEAN : BotBuild(c, ok)
    \/ \E c \in 1..MaxCallers : BotSchedule(c)
    \/ \E c \in 1..MaxCallers : BotPolling(c)

BootSpec == Init /\ [][BootNext]_vars

\* ------------------------------------------------------------------ claims
Closed(i) == mon[i].records >= 1

\* C1: every position whose monitor observed an exit condition has exactly one
\* trade record, and the statistics were updated once per such position,
\* whatever the gateway and the notification calls did.
C1_OneRecordPerPosition ==
    /\ \A i \in DOMAIN mon : mon[i].records <= 1
    /\ win_count + loss_count = Cardinality({i \in DOMAIN mon : Closed(i)})

\* C2: a monitor whose SELL returned a transaction id makes no further SELL
\* call and goes on to terminate: it is at the closing notification or done.
C2_OneSellThenTerminate ==
    \A i \in DOMAIN mon :
        /\ ~mon[i].resold
        /\ mon[i].sold => mon[i].pc \in {"notify", "done"}

\* C3: a position is recorded as closed only when a SELL of it returned a
\* transaction id; a failed SELL leaves it open for a retry.
C3_ClosedOnlyWhenSold ==
    \A i \in DOMAIN mon : Closed(i) => mon[i].sold

\* C4: a check made once elapsed >= TRADE_TIMEOUT closes the position, also
\* when the feed gave no price: no monitor (of a position with a positive
\* entry price) goes back to sleep from such a check with its position still
\* unrecorded.
C4_TimeoutClosesWithoutPrice ==
    \A i \in DOMAIN mon :
        ~(/\ mon[i].entry_price > 0
          /\ mon[i].pc = "sleep"
          /\ mon[i].elapsed >= TRADE_TIMEOUT
          /\ ~Closed(i))

\* C5: at most one monitor is active (not terminated) per contract address.
C5_OneMonitorPerToken ==
    \A c \in Tokens :
        Cardinality({i \in DOMAIN mon : mon[i].ca = c /\ mon[i].pc # "done"}) <= 1

\* C6: when a check sets a reason, it is the reason of the first condition, in
\* the order take-profit, stop-loss, trailing-stop, timeout, that holds of the
\* price read, the updated peak and the elapsed time; and that reason is the
\* one in the trade record appended.
C6_FirstTrueWins ==
    [][\A i \in DOMAIN mon :
          (mon[i].pc = "check" /\ mon'[i].pc = "notify") =>
             LET m == mon'[i]
                 hit == << TakeProfitHit(m.exit_price, m.entry_price),
                           StopLossHit(m.exit_price, m.entry_price),
                           TrailingHit(m.exit_price, m.peak_price),
                           TimeoutHit(m.elapsed) >>
                 order == <<"TP", "SL", "TRAIL", "TIMEOUT">>
             IN  /\ \E k \in 1..4 : /\ hit[k]
                                    /\ \A j \in 1..(k - 1) : ~hit[j]
                                    /\ m.reason = order[k]
                 /\ Len(trade_logs') = Len(trade_logs) + 1
                 /\ trade_logs'[Len(trade_logs')].reason = m.reason
                 /\ trade_logs'[Len(trade_logs')].exit_price = m.exit_price]_vars

\* A position with a positive entry price closed by a check in which all four
\* conditions held at once, with reason take-profit.
C6_Witness ==
    \E i \in DOMAIN mon :
        /\ mon[i].pc = "notify"
        /\ mon[i].entry_price > 0
        /\ TakeProfitHit(mon[i].exit_price, mon[i].entry_price)
        /\ StopLossHit(mon[i].exit_price, mon[i].entry_price)
        /\ TrailingHit(mon[i].exit_price, mon[i].peak_price)
        /\ TimeoutHit(mon[i].elapsed)
        /\ mon[i].reason = "TP"

\* C7: peak_price never decreases, and it is the maximum of the entry price
\* and the prices read so far.
C7_PeakIsMax ==
    /\ [](\A i \in DOMAIN mon :
            mon[i].peak_price = Max({mon[i].entry_price} \cup mon[i].seen))
    /\ [][\A i \in DOMAIN mon : mon'[i].peak_price >= mon[i].peak_price]_vars

\* A monitor whose peak rose above the entry price in two steps and that has
\* also read a price below its peak, still open.
C7_Witness ==
    \E i \in DOMAIN mon :
        /\ mon[i].entry_price = 100
        /\ mon[i].seen = {100, 105, 120}
        /\ mon[i].peak_price = 120
        /\ mon[i].pc = "sleep"

\* C8: a check whose response holds no usable price changes neither
\* peak_price nor trade_logs nor the statistics, and makes no SELL call.
C8_NoPriceNoEffect ==
    [][\A i \in DOMAIN mon :
          (\E r \in NoUsablePrice, o \in SwapOutcomes : Check(i, r, o)) =>
             /\ mon'[i].peak_price = mon[i].peak_price
             /\ mon'[i].sells = mon[i].sells
             /\ UNCHANGED <<trade_logs, total_pnl_sol, win_count, loss_count>>]_vars

\* C9: every monitor runs with an entry price that is strictly positive.
C9_PositiveEntryPrice ==
    \A i \in DOMAIN mon : mon[i].entry_price > 0

\* C10: once the handler has returned, every BUY that gave a transaction id
\* has a monitor (running, or finished with the position closed).
C10_BoughtIsMonitored ==
    handler.pc = "idle" =>
        \A c \in Tokens :
            bought[c] = Cardinality({i \in DOMAIN mon : mon[i].ca = c})

\* C11: monitors come from successful BUYs only: a token has no more monitors
\* than BUYs that returned a transaction id, the handler of a failed BUY
\* returns without creating one, and every trade record and statistics
\* update is the work of a monitor.
C11_FailedBuyOpensNothing ==
    /\ [](\A c \in Tokens :
            Cardinality({i \in DOMAIN mon : mon[i].ca = c}) <= bought[c])
    /\ [](/\ Len(trade_logs) <= SumRecords(mon)
          /\ win_count + loss_count <= SumRecords(mon)
          /\ (mon = <<>> => total_pnl_sol = 0))
    /\ [][(handler.pc = "reply" /\ handler.txid = None /\ handler'.pc = "idle")
             => mon' = mon]_vars

\* The handler of a message with a contract address whose BUY returned no
\* transaction id, about to return.
C11_Witness ==
    /\ handler.pc = "reply"
    /\ handler.ca \in Tokens
    /\ handler.txid = None
    /\ mon = <<>>
    /\ trade_logs = <<>>

\* The exit conditions of a position with a positive entry price, as price
\* thresholds: price >= entry * (1 + tp), price <= entry * (1 - sl),
\* price <= peak * (1 - trail), elapsed >= TRADE_TIMEOUT.
ExitHolds(price, entry_price, peak, elapsed) ==
    \/ price * 100 >= entry_price * (100 + cfg.tp)
    \/ price * 100 <= entry_price * (100 - cfg.sl)
    \/ price * 100 <= peak * (100 - cfg.trail)
    \/ elapsed >= TRADE_TIMEOUT

\* C12: for a position with a positive entry price, a check that reads a
\* price closes the position exactly when an exit condition holds of that
\* price (so the first such check closes it, and no check before it does);
\* the record appended has that price as exit price, the change
\* (exit - entry) / entry * 100 and the profit trade size * change / 100.
C12_ClosesAtFirstExit ==
    [][\A i \in DOMAIN mon : \A r \in FeedResponses :
          (/\ r.kind = "price"
           /\ mon[i].entry_price > 0
           /\ \E o \in SwapOutcomes : Check(i, r, o)) =>
             LET m == mon[i]
                 peak == Max({m.entry_price, r.price} \cup m.seen)
                 rec == trade_logs'[Len(trade_logs')]
             IN  IF ExitHolds(r.price, m.entry_price, peak, m.elapsed)
                 THEN /\ mon'[i].pc = "notify"
                      /\ Len(trade_logs') = Len(trade_logs) + 1
                      /\ rec.exit_price = r.price
                      /\ rec.entry_price = m.entry_price
                      /\ rec.pnl_pct * m.entry_price
                            = (r.price - m.entry_price) * 100
                      /\ rec.profit_in_sol * 100 = TRADE_LAMPORTS * rec.pnl_pct
                      /\ total_pnl_sol' = total_pnl_sol + rec.profit_in_sol
                 ELSE /\ mon'[i].pc = "sleep"
                      /\ trade_logs' = trade_logs]_vars

\* Entry 100, take-profit 50%: the prices 105 and 120 left the position open
\* and the third check, at 150, closed it with reason take-profit and +50%.
C12_Witness ==
    \E i \in DOMAIN mon :
        /\ cfg = DefaultConfig
        /\ mon[i].entry_price = 100
        /\ mon[i].seen = {105, 120, 150}
        /\ mon[i].pc = "notify"
        /\ mon[i].records = 1
        /\ mon[i].reason = "TP"
        /\ trade_logs = << [symbol |-> mon[i].symbol, entry_price |-> 100,
                            exit_price |-> 150, pnl_pct |-> 50,
                            profit_in_sol |-> 5000000, reason |-> "TP"] >>

\* C13: a check that reads a price at or below (1 - trailing fraction) of the
\* highest price read since entry (that price included), with neither
\* take-profit nor stop-loss reached, closes the position with reason
\* trailing-stop; and trailing-stop is the reason of no other close.
C13_TrailingFromPeak ==
    /\ [](\A i \in DOMAIN mon :
            mon[i].pc = "notify" =>
               LET m == mon[i]
                   high == Max({m.entry_price} \cup m.seen)
               IN  m.reason = "TRAIL" <=>
                      /\ ~TakeProfitHit(m.exit_price, m.entry_price)
                      /\ ~StopLossHit(m.exit_price, m.entry_price)
                      /\ m.exit_price * 100 <= high * (100 - cfg.trail))
    /\ [][\A i \in DOMAIN mon : \A r \in FeedResponses :
            (/\ r.kind = "price"
             /\ \E o \in SwapOutcomes : Check(i, r, o)
             /\ ~TakeProfitHit(r.price, mon[i].entry_price)
             /\ ~StopLossHit(r.price, mon[i].entry_price)
             /\ r.price * 100 <=
                  Max({mon[i].entry_price, r.price} \cup mon[i].seen)
                     * (100 - cfg.trail)) =>
               (mon'[i].pc = "notify" /\ mon'[i].reason = "TRAIL")]_vars

\* Entry 100, trailing stop 10%: prices 100, 120 (the peak), then 105, which
\* is above the stop-loss and below 108: closed with reason trailing-stop.
C13_Witness ==
    \E i \in DOMAIN mon :
        /\ cfg = DefaultConfig
        /\ mon[i].entry_price = 100
        /\ mon[i].seen = {100, 105, 120}
        /\ mon[i].peak_price = 120
        /\ mon[i].exit_price = 105
        /\ mon[i].pc = "notify"
        /\ mon[i].reason = "TRAIL"
        /\ ~TimeoutHit(mon[i].elapsed)

\* C14: the daily summary clears exactly what it reported: the trade records
\* dropped by its resets are as many as the trades its messages counted.
C14_ClearsWhatItReported == summary.cleared = summary.reported

\* C15: jupiter_swap never raises; when the quote request, the swap request
\* or the submission fails it returns no transaction id together with a
\* message; it submits nothing when the quote has no route or the swap
\* response has no transaction; and the transaction id it returns is the one
\* the handlers' outcome stands for.
C15_GatewayNeverRaises ==
    \A k \in DOMAIN calls :
        LET c == calls[k]
            failed == \/ c.quote # "route"
                      \/ c.swap # "tx"
                      \/ c.send \in {"decode_raise", "raise_unsent",
                                      "raise_sent"}
        IN  /\ ~c.result.raised
            /\ failed => c.result.txid = None /\ c.result.msg # None
            /\ (c.quote \in {"no_data", "empty_data"} \/ c.swap = "no_tx")
                  => ~c.result.sent
            /\ c.result.txid # None => c.result.sent
            /\ c.result.txid = jupiter_swap(OutcomeOf(c.quote, c.swap, c.send))
            /\ OutcomeOf(c.quote, c.swap, c.send) \in SwapOutcomes

\* A SELL whose quote had no route and a BUY whose swap request raised: both
\* returned no transaction id and a message, and submitted nothing.
C15_Witness ==
    /\ Len(calls) = 2
    /\ calls[1].quote = "empty_data" /\ calls[1].action = "SELL"
    /\ calls[1].result = [raised |-> FALSE, txid |-> None,
                          msg |-> <<"No route for", "SELL">>, sent |-> FALSE]
    /\ calls[2].quote = "route" /\ calls[2].swap = "raise"
    /\ calls[2].result = [raised |-> FALSE, txid |-> None,
                          msg |-> <<"BUY", "failed">>, sent |-> FALSE]

\* C16: at most one BUY per contract address returns a transaction id.
C16_OneTradePerToken == \A c \in Tokens : bought[c] <= 1

\* C17: once the process is down, every position a monitor was watching has
\* a trade record (the code keeps no flag and no file of open positions).
C17_NoPositionDropped ==
    process = "down" => \A i \in DOMAIN mon : Closed(i)

\* C18: send_daily_summary is scheduled exactly once per day: never twice,
\* and once by the time the minute of WAT midnight is over.
C18_ScheduledOncePerDay ==
    /\ sched.scheduled <= 1
    /\ (sched.started /\ sched.clock >= MIDNIGHT_WINDOW) => sched.scheduled = 1

\* C19: every response of /stats is consistent: trades_count = wins + losses
\* and total_pnl_sol is the sum of profit_in_sol over the records in
\* trade_logs.
C19_StatsConsistent ==
    view.served =>
        /\ view.trades_count = view.wins + view.losses
        /\ view.total_pnl_sol = view.logged_pnl

\* C20: however many calls of start_telegram_bot are made and however they
\* overlap, at most one Application is built and at most one scheduler
\* thread and one polling thread are started.
C20_AtMostOneBot ==
    /\ boot.apps <= 1
    /\ boot.schedule_threads <= 1
    /\ boot.polling_threads <= 1
====
